---- MODULE Spec2Model ----
(***************************************************************************)
(* kvstore: a log-structured key-value store.                              *)
(*   src/src/kvls.rs  KvLogStore: the log file kvls.ser, its writer and    *)
(*                    reader, the record counter and the compaction.       *)
(*   src/src/kvs.rs   KvStore: the index kvmap (key -> byte offset) over   *)
(*                    the log; open / set / get / remove.                  *)
(* A file is the sequence of its bytes.  One element of the sequence is    *)
(* one lexical token of the JSON text serde_json writes (the fixed texts   *)
(* {"key": and ,"value": and null and } are one token each, a string is    *)
(* quote, character, quote), so a Set record is 9 tokens long and a Remove *)
(* record 7, and a byte offset is an index into that sequence.             *)
(***************************************************************************)
EXTENDS Integers, Sequences, FiniteSets, TLC

\* The keys and values the calls are made with (one character each).
Keys == {"a", "b"}
Values == {"x", "y"}

\* Option::None of the source (DeLogEntry.value, the result of get).
None == "None"

\* kvls.rs:51 sets max_entries to 1024 in KvLogStore::new.  The model runs the
\* same policy with this smaller initial threshold, so that compactions happen
\* within the explored runs.
InitialMaxEntries == 2

\* Calls are made while the files are at most this long (fault runs only: a
\* temp file that is never removed would otherwise grow without bound).
MaxFileLen == 40

\* At most this many calls of a run meet an I/O fault (or are cut by a kill).
MaxFaults == 1

VARIABLES
    log,          \* bytes of <dir>/kvls.ser (LOG_FILE_NAME)
    temp,         \* bytes of <dir>/kvls.compact.ser (COMPACTION_FILE)
    tempExists,   \* whether kvls.compact.ser exists in the directory
    up,           \* a KvStore value is alive (opened and not dropped)
    kvmap,        \* KvStore.kvmap: key -> offset
    num_entries,  \* KvLogStore.num_entries
    max_entries,  \* KvLogStore.max_entries
    wbuf,         \* bytes held in KvLogStore.writer (BufWriter) not yet in the file
    ref,          \* history: the reference map, key -> value or None
    last,         \* history: the last call and its result
    faults        \* history: how many calls met an I/O fault or a kill

vars == <<log, temp, tempExists, up, kvmap, num_entries, max_entries, wbuf, ref, last,
          faults>>

----------------------------------------------------------------------------
(* Record codec: serde_json::to_vec of SeLogEntry, and the stream          *)
(* deserializer of DeLogEntry.                                             *)

T_KEY == "{\"key\":"
T_VALUE == ",\"value\":"
T_NULL == "null"
T_END == "}"
T_QUOTE == "\""

Chars == Keys \cup Values

\* a JSON string of one character
JsonStr(s) == <<T_QUOTE, s, T_QUOTE>>

\* serde_json::to_vec(&SeLogEntry { key, value }); value is None for a Remove
to_vec(key, value) ==
    <<T_KEY>> \o JsonStr(key) \o <<T_VALUE>>
        \o (IF value = None THEN <<T_NULL>> ELSE JsonStr(value)) \o <<T_END>>

IsJsonStrAt(bytes, p) ==
    /\ p + 3 <= Len(bytes)
    /\ bytes[p + 1] = T_QUOTE
    /\ bytes[p + 2] \in Chars
    /\ bytes[p + 3] = T_QUOTE

\* One step of serde_json's StreamDeserializer<DeLogEntry> at byte offset pos:
\* end of input ("eof", the iterator returns None), one entry and the offset
\* after it, or an error (a record cut short, or text that is no DeLogEntry).
stream_next(bytes, pos) ==
    IF pos >= Len(bytes) THEN [kind |-> "eof"]
    ELSE IF /\ bytes[pos + 1] = T_KEY
            /\ IsJsonStrAt(bytes, pos + 1)
            /\ pos + 5 <= Len(bytes)
            /\ bytes[pos + 5] = T_VALUE
         THEN IF /\ IsJsonStrAt(bytes, pos + 5)
                 /\ pos + 9 <= Len(bytes)
                 /\ bytes[pos + 9] = T_END
              THEN [kind |-> "entry", key |-> bytes[pos + 3],
                    value |-> bytes[pos + 7], end |-> pos + 9]
              ELSE IF /\ pos + 7 <= Len(bytes)
                      /\ bytes[pos + 6] = T_NULL
                      /\ bytes[pos + 7] = T_END
                   THEN [kind |-> "entry", key |-> bytes[pos + 3],
                         value |-> None, end |-> pos + 7]
                   ELSE [kind |-> "error"]
         ELSE [kind |-> "error"]

----------------------------------------------------------------------------
\* The element of a one-element set.  the({F(x) : x \in {e}}) is F(e) with e
\* evaluated once, where F uses its argument many times.
the(S) == CHOOSE x \in S : TRUE

----------------------------------------------------------------------------
(* HashMap<String, u64>                                                    *)

EmptyMap == [k \in {} |-> 0]
map_insert(m, key, pos) ==
    [k \in (DOMAIN m) \cup {key} |-> IF k = key THEN pos ELSE m[k]]
map_remove(m, key) == [k \in (DOMAIN m) \ {key} |-> m[k]]

\* the orders in which HashMap::iter_mut may visit the keys of m
IterOrders(m) ==
    {s \in [1..Cardinality(DOMAIN m) -> DOMAIN m] :
        \A i, j \in DOMAIN s : i # j => s[i] # s[j]}

----------------------------------------------------------------------------
(* KvLogStore (src/src/kvls.rs)                                            *)

\* The I/O fault injected into a call: none, or the step that fails.
\*   open_temp  opening kvls.compact.ser fails
\*   read  i    reading the value of the i-th visited key fails
\*   write i n  writing the i-th record fails after n of its bytes
\*   rename     std::fs::rename fails
\*   append n   flushing the writer of kvls.ser fails after n bytes
NoFault == [kind |-> "none", i |-> 0, n |-> 0]

\* faulty variant: commit_operation returning end, without subtracting v.len()
commit_operation_end(v, file, buf) ==
    [file |-> file \o buf \o v, pos |-> Len(file \o buf \o v)]

\* faulty variant: commit_operation returning the number of bytes written
commit_operation_len(v, file, buf) ==
    [file |-> file \o buf \o v, pos |-> Len(v)]

\* commit_operation(op, writer): v = to_vec(op); write_all puts v behind what
\* the BufWriter still holds (buf); seek(End(0)) flushes it all to the file
\* and returns the file's length; the result is end - v.len().
commit_operation(v, file, buf) ==
    [file |-> file \o buf \o v, pos |-> Len(file \o buf \o v) - Len(v)]

\* build_map: replay from byte 0; Set inserts the record's start offset,
\* Remove erases the key; one count per record; a decoder error is returned.
RECURSIVE build_map_from(_, _, _, _)
\* faulty variant: build_map whose Remove arm leaves the key in the map
build_map_entry_keep(bytes, pos, map, n, op) ==
    IF op.kind = "eof" THEN [ok |-> TRUE, map |-> map, n |-> n]
    ELSE IF op.kind = "error" THEN [ok |-> FALSE, map |-> map, n |-> n]
    ELSE build_map_from(bytes, op.end,
                        IF op.value # None THEN map_insert(map, op.key, pos)
                                           ELSE map,
                        n + 1)

\* the body of the while loop of build_map, for the stream item op found at pos
build_map_entry(bytes, pos, map, n, op) ==
    IF op.kind = "eof" THEN [ok |-> TRUE, map |-> map, n |-> n]
    ELSE IF op.kind = "error" THEN [ok |-> FALSE, map |-> map, n |-> n]
    ELSE build_map_from(bytes, op.end,
                        IF op.value # None THEN map_insert(map, op.key, pos)
                                           ELSE map_remove(map, op.key),
                        n + 1)

build_map_from(bytes, pos, map, n) ==
    build_map_entry(bytes, pos, map, n, stream_next(bytes, pos))

build_map(bytes) == build_map_from(bytes, 0, EmptyMap, 0)

\* the body of the for loop of get_at_offset, for the stream item op:
\* res is "ok" with the value, "err" (decoder error, key mismatch, or a Remove
\* entry), or "panic" (no entry at pos: the loop body never runs).
entry_value(op, key) ==
    IF op.kind = "eof" THEN [res |-> "panic", value |-> None]
    ELSE IF op.kind = "error" THEN [res |-> "err", value |-> None]
    ELSE IF op.key = key
         THEN IF op.value # None THEN [res |-> "ok", value |-> op.value]
                                 ELSE [res |-> "err", value |-> None]
         ELSE [res |-> "err", value |-> None]

\* get_at_offset(key, pos): decode one entry at pos of the active log
get_at_offset(bytes, key, pos) == entry_value(stream_next(bytes, pos), key)

RECURSIVE double_until(_, _)
double_until(num, max) == IF num > max THEN double_until(num, max * 2) ELSE max

\* faulty variant: the policy without its third branch: the threshold is
\* doubled whenever it is reached and no compaction ever runs
compaction_analysis_never(num, max, map_len) ==
    IF num < max THEN [run |-> FALSE, max_entries |-> max]
    ELSE [run |-> FALSE, max_entries |-> double_until(num, max)]

\* faulty variant: the second branch without its while loop: the threshold
\* is never doubled
compaction_analysis_nodouble(num, max, map_len) ==
    IF num < max THEN [run |-> FALSE, max_entries |-> max]
    ELSE IF num < 2 * map_len
         THEN [run |-> FALSE, max_entries |-> max]
         ELSE [run |-> TRUE, max_entries |-> max]

\* faulty variant: the policy that looks at the threshold alone
compaction_analysis_threshold(num, max, map_len) ==
    IF num < max THEN [run |-> FALSE, max_entries |-> max]
    ELSE [run |-> TRUE, max_entries |-> max]

\* compaction_analysis(map_len): whether to compact, and max_entries after it
compaction_analysis(num, max, map_len) ==
    IF num < max THEN [run |-> FALSE, max_entries |-> max]
    ELSE IF num < 2 * map_len
         THEN [run |-> FALSE, max_entries |-> double_until(num, max)]
         ELSE [run |-> TRUE, max_entries |-> max]

\* open_file_handles(path, COMPACTION_FILE): create(true).append(true) keeps
\* the bytes of a file that is already there; a missing file starts empty.
open_file_handles(exists, bytes) == IF exists THEN bytes ELSE <<>>

\* the loop of do_compaction over map.iter_mut(): read the value from the
\* active log, append a Set record to the temp file, store its offset in place
RECURSIVE compaction_loop(_, _, _, _, _, _)
\* faulty variant: the loop without the store through *pos: the index keeps the
\* offsets of the old log
compaction_entry_keep(order, i, active, tmp, map, fault, got) ==
    IF fault.kind = "read" /\ fault.i = i
        THEN [res |-> "err", temp |-> tmp, map |-> map]
    ELSE IF got.res # "ok"
        THEN [res |-> got.res, temp |-> tmp, map |-> map]
    ELSE IF fault.kind = "write" /\ fault.i = i
        THEN [res |-> "err", map |-> map,
              temp |-> tmp \o SubSeq(to_vec(order[i], got.value), 1, fault.n)]
    ELSE compaction_loop(
             order, i + 1, active,
             commit_operation(to_vec(order[i], got.value), tmp, <<>>).file,
             map, fault)

\* one iteration, for the result got of get_at_offset(key, *pos)
compaction_entry(order, i, active, tmp, map, fault, got) ==
    IF fault.kind = "read" /\ fault.i = i
        THEN [res |-> "err", temp |-> tmp, map |-> map]
    ELSE IF got.res # "ok"
        THEN [res |-> got.res, temp |-> tmp, map |-> map]
    ELSE IF fault.kind = "write" /\ fault.i = i
        THEN [res |-> "err", map |-> map,
              temp |-> tmp \o SubSeq(to_vec(order[i], got.value), 1, fault.n)]
    ELSE compaction_loop(
             order, i + 1, active,
             commit_operation(to_vec(order[i], got.value), tmp, <<>>).file,
             map_insert(map, order[i],
                 commit_operation(to_vec(order[i], got.value), tmp, <<>>).pos),
             fault)

\* faulty variant: the loop that stops before the last key it should visit
compaction_loop_short(order, i, active, tmp, map, fault) ==
    IF i >= Len(order) THEN [res |-> "ok", temp |-> tmp, map |-> map]
    ELSE the({compaction_entry(order, i, active, tmp, map, fault, got) :
                  got \in {get_at_offset(active, order[i], map[order[i]])}})

compaction_loop(order, i, active, tmp, map, fault) ==
    IF i > Len(order) THEN [res |-> "ok", temp |-> tmp, map |-> map]
    ELSE the({compaction_entry(order, i, active, tmp, map, fault, got) :
                  got \in {get_at_offset(active, order[i], map[order[i]])}})

\* faulty variant: do_compaction that ends by raising max_entries to twice
\* the number of entries of the compacted log
compaction_commit_raise(st, fault, lp) ==
    IF lp.res # "ok"
        THEN [st EXCEPT !.temp = lp.temp, !.tempExists = TRUE,
                        !.kvmap = lp.map, !.res = lp.res]
    ELSE IF fault.kind = "rename"
        THEN [st EXCEPT !.temp = lp.temp, !.tempExists = TRUE,
                        !.kvmap = lp.map, !.res = "err"]
    ELSE [st EXCEPT !.log = lp.temp, !.temp = <<>>, !.tempExists = FALSE,
                    !.kvmap = lp.map, !.wbuf = <<>>,
                    !.num_entries = Cardinality(DOMAIN lp.map),
                    !.max_entries =
                        IF st.max_entries >= 2 * Cardinality(DOMAIN lp.map)
                        THEN st.max_entries ELSE 2 * Cardinality(DOMAIN lp.map),
                    !.res = "true"]

\* do_compaction after the loop lp: the rename, the new handles, the counter
compaction_commit(st, fault, lp) ==
    IF lp.res # "ok"
        THEN [st EXCEPT !.temp = lp.temp, !.tempExists = TRUE,
                        !.kvmap = lp.map, !.res = lp.res]
    ELSE IF fault.kind = "rename"
        THEN [st EXCEPT !.temp = lp.temp, !.tempExists = TRUE,
                        !.kvmap = lp.map, !.res = "err"]
    ELSE [st EXCEPT !.log = lp.temp, !.temp = <<>>, !.tempExists = FALSE,
                    !.kvmap = lp.map, !.wbuf = <<>>,
                    !.num_entries = Cardinality(DOMAIN lp.map), !.res = "true"]

\* do_compaction from the opening of the temp file on (kvls.rs:162-188): the
\* loop over the index, the rename, the new handles, the counter
compaction_run(st, order, fault) ==
    the({compaction_commit(st, fault, lp) :
             lp \in {compaction_loop(order, 1, st.log,
                         open_file_handles(st.tempExists, st.temp),
                         st.kvmap, fault)}})

\* do_compaction(map).  st holds the directory and the store's fields; the
\* result is st after the call with res: "false" / "true" (Ok(false/true)),
\* "err" (Err returned through ?) or "panic".
do_compaction(st, order, fault) ==
    LET ca == compaction_analysis(st.num_entries, st.max_entries,
                                  Cardinality(DOMAIN st.kvmap))
    IN  IF ~ca.run
            THEN [st EXCEPT !.max_entries = ca.max_entries, !.res = "false"]
        ELSE IF fault.kind = "open_temp" THEN [st EXCEPT !.res = "err"]
        ELSE compaction_run(st, order, fault)

\* faulty variant: the append without num_entries += 1
log_append_nocount(st, v, fault) ==
    IF fault.kind = "append" /\ fault.n < Len(st.wbuf \o v)
    THEN [st EXCEPT !.log = st.log \o SubSeq(st.wbuf \o v, 1, fault.n),
                    !.wbuf = SubSeq(st.wbuf \o v, fault.n + 1, Len(st.wbuf \o v)),
                    !.res = "err", !.pos = 0]
    ELSE [st EXCEPT !.log = commit_operation(v, st.log, st.wbuf).file,
                    !.wbuf = <<>>,
                    !.res = "ok",
                    !.pos = commit_operation(v, st.log, st.wbuf).pos]

\* the append of KvLogStore::set / KvLogStore::remove: commit_operation on
\* self.writer, then num_entries += 1.  A failed flush leaves the first
\* fault.n bytes of the buffer in the file and the rest in the BufWriter.
log_append(st, v, fault) ==
    IF fault.kind = "append" /\ fault.n < Len(st.wbuf \o v)
    THEN [st EXCEPT !.log = st.log \o SubSeq(st.wbuf \o v, 1, fault.n),
                    !.wbuf = SubSeq(st.wbuf \o v, fault.n + 1, Len(st.wbuf \o v)),
                    !.res = "err", !.pos = 0]
    ELSE [st EXCEPT !.log = commit_operation(v, st.log, st.wbuf).file,
                    !.wbuf = <<>>,
                    !.num_entries = st.num_entries + 1,
                    !.res = "ok",
                    !.pos = commit_operation(v, st.log, st.wbuf).pos]

----------------------------------------------------------------------------
(* KvStore (src/src/kvs.rs)                                                *)

\* kvs.rs:41, self.kvmap.insert(key, pos), unless the append returned Err
set_index(a, key) ==
    IF a.res = "err" THEN a ELSE [a EXCEPT !.kvmap = map_insert(a.kvmap, key, a.pos)]

\* kvs.rs:40-41 of KvStore::set, for the result c of do_compaction
set_after_compaction(c, key, value, fault) ==
    IF c.res \in {"err", "panic"} THEN c
    ELSE the({set_index(a, key) :
                  a \in {log_append([c EXCEPT !.compacted = (c.res = "true")],
                                    to_vec(key, value), fault)}})

\* KvStore::set: do_compaction first, then the append, then the index.
KvStore_set(st, key, value, order, fault) ==
    the({set_after_compaction(c, key, value, fault) :
             c \in {do_compaction(st, order, fault)}})

\* faulty variant: remove that writes the tombstone and leaves the key in the index
remove_index_keep(a, key) == a

\* kvs.rs:61, self.kvmap.remove(&key), unless the append returned Err
remove_index(a, key) ==
    IF a.res = "err" THEN a ELSE [a EXCEPT !.kvmap = map_remove(a.kvmap, key)]

\* faulty variant: remove without the contains_key check
remove_after_compaction_nocheck(c, key, fault) ==
    IF c.res \in {"err", "panic"} THEN c
    ELSE remove_index(log_append([c EXCEPT !.compacted = (c.res = "true")],
                                 to_vec(key, None), fault), key)

\* kvs.rs:57-61 of KvStore::remove, for the result c of do_compaction
remove_after_compaction(c, key, fault) ==
    IF c.res \in {"err", "panic"} THEN c
    ELSE IF key \notin DOMAIN c.kvmap
        THEN [c EXCEPT !.compacted = (c.res = "true"), !.res = "KeyNotFound"]
    ELSE the({remove_index(a, key) :
                  a \in {log_append([c EXCEPT !.compacted = (c.res = "true")],
                                    to_vec(key, None), fault)}})

\* KvStore::remove: do_compaction first, then the key check, then the
\* tombstone, then the index.
KvStore_remove(st, key, order, fault) ==
    the({remove_after_compaction(c, key, fault) :
             c \in {do_compaction(st, order, fault)}})

\* KvStore::get: Ok(None) for a key not in the index, else get_at_offset
KvStore_get(bytes, map, key) ==
    IF key \in DOMAIN map THEN get_at_offset(bytes, key, map[key])
                          ELSE [res |-> "ok", value |-> None]

\* build_map's result as the fields of the opened store
opened(b) ==
    [ok |-> b.ok, kvmap |-> b.map, num_entries |-> 0 + b.n,
     max_entries |-> InitialMaxEntries]

\* KvStore::open: KvLogStore::new (num_entries 0, max_entries 1024), build_map
KvStore_open(bytes) == opened(build_map(bytes))

----------------------------------------------------------------------------
(* The state machine                                                       *)

\* the directory and the fields of the live store, as the operators take them
Store ==
    [log |-> log, temp |-> temp, tempExists |-> tempExists, kvmap |-> kvmap,
     num_entries |-> num_entries, max_entries |-> max_entries, wbuf |-> wbuf,
     res |-> "none", compacted |-> FALSE, pos |-> 0]

\* what get returns for every key
ViewOf(bytes, map) == [k \in Keys |-> KvStore_get(bytes, map, k)]
View == ViewOf(log, kvmap)

\* the record of a call: what was called and what it returned.  view holds
\* what get returned for every key when the store was last alive; it is kept
\* only while no store is alive.
NoView == <<>>
Call(op, key, value, res, compacted) ==
    [op |-> op, prev |-> last.op, key |-> key, value |-> value, res |-> res,
     compacted |-> compacted, view |-> NoView]

Init ==
    /\ log = <<>>
    /\ temp = <<>>
    /\ tempExists = FALSE
    /\ up = TRUE
    /\ kvmap = EmptyMap
    /\ num_entries = 0
    /\ max_entries = InitialMaxEntries
    /\ wbuf = <<>>
    /\ ref = [k \in Keys |-> None]
    /\ last = [op |-> "open", prev |-> "init", key |-> None, value |-> None,
               res |-> "ok", compacted |-> FALSE, view |-> NoView]
    /\ faults = 0

\* the store value is gone (dropped, or the process ended)
StoreGone ==
    /\ up' = FALSE
    /\ kvmap' = EmptyMap
    /\ num_entries' = 0
    /\ max_entries' = InitialMaxEntries
    /\ wbuf' = <<>>

\* the state after a call that returned r; a panic unwinds and drops the
\* store, which flushes the writer
Returned(r) ==
    /\ temp' = r.temp
    /\ tempExists' = r.tempExists
    /\ IF r.res = "panic"
       THEN /\ log' = r.log \o r.wbuf
            /\ StoreGone
       ELSE /\ log' = r.log
            /\ up' = TRUE
            /\ kvmap' = r.kvmap
            /\ num_entries' = r.num_entries
            /\ max_entries' = r.max_entries
            /\ wbuf' = r.wbuf

Small == Len(log) + Len(wbuf) <= MaxFileLen /\ Len(temp) <= MaxFileLen

\* a call of set or remove returned r: the reference map follows a success
Called(op, key, value, r) ==
    /\ Returned(r)
    /\ ref' = IF r.res = "ok" THEN [ref EXCEPT ![key] = value] ELSE ref
    /\ last' = Call(op, key, value, r.res, r.compacted)

SetCall(key, value, order, fault) ==
    \E r \in {KvStore_set(Store, key, value, order, fault)} :
        Called("set", key, value, r)

RemoveCall(key, order, fault) ==
    \E r \in {KvStore_remove(Store, key, order, fault)} :
        Called("remove", key, None, r)

\* kvs.set(key, value) with no I/O fault
Set(key, value) ==
    /\ up /\ Small
    /\ \E order \in IterOrders(kvmap) : SetCall(key, value, order, NoFault)
    /\ UNCHANGED faults

\* kvs.remove(key) with no I/O fault
Remove(key) ==
    /\ up /\ Small
    /\ \E order \in IterOrders(kvmap) : RemoveCall(key, order, NoFault)
    /\ UNCHANGED faults

\* faulty variant: get that starts with the policy check and the compaction,
\* as set and remove do
GetCalled_compacting(key, r) ==
    /\ \E order \in IterOrders(kvmap) :
           Returned([do_compaction(Store, order, NoFault) EXCEPT !.res = r.res])
    /\ last' = Call("get", key, r.value, r.res, FALSE)
    /\ UNCHANGED <<ref, faults>>

\* kvs.get(key)
GetCalled(key, r) ==
    /\ Returned([Store EXCEPT !.res = r.res])
    /\ last' = Call("get", key, r.value, r.res, FALSE)
    /\ UNCHANGED <<ref, faults>>

Get(key) == up /\ GetCalled(key, KvStore_get(log, kvmap, key))

\* the store goes out of scope: the BufWriter flushes and the files close
Drop ==
    /\ up
    /\ log' = log \o wbuf
    /\ StoreGone
    /\ last' = [Call("drop", None, None, "ok", FALSE) EXCEPT !.view = View]
    /\ UNCHANGED <<temp, tempExists, ref, faults>>

\* what get returns for every key of a map that holds m
ViewOfRef(m) == [k \in Keys |-> [res |-> "ok", value |-> m[k]]]

\* KvStore::open on the directory.  After a kill the reference map is the one
\* after the cut call if the reopened store shows that, and else the one before.
Opened(o) ==
    /\ up' = o.ok
    /\ ref' = IF last.op = "kill" /\ o.ok
                  /\ ViewOf(log, o.kvmap) = ViewOfRef([ref EXCEPT ![last.key] = last.value])
              THEN [ref EXCEPT ![last.key] = last.value]
              ELSE ref
    /\ kvmap' = IF o.ok THEN o.kvmap ELSE EmptyMap
    /\ num_entries' = IF o.ok THEN o.num_entries ELSE 0
    /\ max_entries' = o.max_entries
    /\ last' = [last EXCEPT !.op = "open", !.prev = last.op,
                            !.res = IF o.ok THEN "ok" ELSE "err",
                            !.view = NoView]
    /\ UNCHANGED <<log, temp, tempExists, wbuf, faults>>

Open == ~up /\ Opened(KvStore_open(log))

Next ==
    \/ \E key \in Keys, value \in Values : Set(key, value)
    \/ \E key \in Keys : Remove(key)
    \/ \E key \in Keys : Get(key)
    \/ Drop
    \/ Open

\* calls on a filesystem that does not fail, in a process that is not killed
Spec == Init /\ [][Next]_vars

----------------------------------------------------------------------------
(* Calls on a filesystem that can fail                                     *)

\* the length of a Set record
RecordLen == Len(to_vec("a", "x"))

\* how many bytes of a write reach the file before it fails: none, some, or
\* (when the dropped BufWriter of the temp file flushes the rest) all of them
Cuts == {0, 4, RecordLen}

Faults ==
    {[kind |-> "open_temp", i |-> 0, n |-> 0], [kind |-> "rename", i |-> 0, n |-> 0]}
    \cup {[kind |-> "read", i |-> i, n |-> 0] : i \in 1..Cardinality(Keys)}
    \cup {[kind |-> "write", i |-> i, n |-> n] :
             i \in 1..Cardinality(Keys), n \in Cuts}
    \cup {[kind |-> "append", i |-> 0, n |-> n] : n \in Cuts}

\* kvs.set(key, value) during which one I/O step fails
SetFault(key, value) ==
    /\ up /\ Small
    /\ faults < MaxFaults
    /\ faults' = faults + 1
    /\ \E order \in IterOrders(kvmap), fault \in Faults :
          /\ KvStore_set(Store, key, value, order, fault).res = "err"
          /\ KvStore_set(Store, key, value, order, fault)
                 # KvStore_set(Store, key, value, order, NoFault)
          /\ SetCall(key, value, order, fault)

\* kvs.remove(key) during which one I/O step fails
RemoveFault(key) ==
    /\ up /\ Small
    /\ faults < MaxFaults
    /\ faults' = faults + 1
    /\ \E order \in IterOrders(kvmap), fault \in Faults :
          /\ KvStore_remove(Store, key, order, fault).res = "err"
          /\ KvStore_remove(Store, key, order, fault)
                 # KvStore_remove(Store, key, order, NoFault)
          /\ RemoveCall(key, order, fault)

\* (get changes nothing on disk or in the store and is left out here)
NextFault ==
    \/ \E key \in Keys, value \in Values : Set(key, value)
    \/ \E key \in Keys : Remove(key)
    \/ Drop
    \/ Open
    \/ \E key \in Keys, value \in Values : SetFault(key, value)
    \/ \E key \in Keys : RemoveFault(key)

\* the same calls, any of which may meet one failing I/O step
SpecFault == Init /\ [][NextFault]_vars

----------------------------------------------------------------------------
(* Calls cut short by the end of the process                               *)

\* where the process can stop inside set or remove: after the temp file was
\* opened and before the i-th value is read, after n bytes of the i-th temp
\* record, before the rename, and after n bytes of the appended record (none:
\* between the compaction and the append)
KillPoints == Faults \ {[kind |-> "open_temp", i |-> 0, n |-> 0]}

\* the directory keeps what r had written; nothing is flushed; the store is gone
Killed(key, value, r) ==
    /\ r.res = "err"
    /\ log' = r.log
    /\ temp' = r.temp
    /\ tempExists' = r.tempExists
    /\ StoreGone
    /\ last' = [Call("kill", key, value, "killed", r.compacted) EXCEPT !.view = View]
    /\ faults' = faults + 1
    /\ UNCHANGED ref

\* the process ends inside kvs.set(key, value)
SetKill(key, value) ==
    /\ up /\ Small
    /\ faults < MaxFaults
    /\ \E order \in IterOrders(kvmap), point \in KillPoints :
          Killed(key, value, KvStore_set(Store, key, value, order, point))

\* the process ends inside kvs.remove(key)
RemoveKill(key) ==
    /\ up /\ Small
    /\ faults < MaxFaults
    /\ \E order \in IterOrders(kvmap), point \in KillPoints :
          Killed(key, None, KvStore_remove(Store, key, order, point))

NextKill ==
    \/ \E key \in Keys, value \in Values : Set(key, value)
    \/ \E key \in Keys : Remove(key)
    \/ Drop
    \/ Open
    \/ \E key \in Keys, value \in Values : SetKill(key, value)
    \/ \E key \in Keys : RemoveKill(key)

\* the calls on a filesystem that does not fail, in a process that can be
\* killed inside a call
SpecKill == Init /\ [][NextKill]_vars

----------------------------------------------------------------------------
(* Reads of the log at any offset                                          *)

\* kvlog.get_at_offset(key, pos) returned r
ReadCalled(key, r) ==
    /\ Returned([Store EXCEPT !.res = r.res])
    /\ last' = Call("get_at_offset", key, r.value, r.res, FALSE)
    /\ UNCHANGED <<ref, faults>>

\* KvLogStore::get_at_offset(key, pos), a public method, called with any
\* offset from 0 to one past the end of kvls.ser
ReadAt(key, pos) == up /\ ReadCalled(key, get_at_offset(log, key, pos))

NextRead ==
    \/ \E key \in Keys, value \in Values : Set(key, value)
    \/ \E key \in Keys : Remove(key)
    \/ \E key \in Keys : \E pos \in 0..(Len(log) + 1) : ReadAt(key, pos)
    \/ Drop
    \/ Open

\* the calls of Spec, and reads of the log at offsets the caller chooses
SpecRead == Init /\ [][NextRead]_vars

----------------------------------------------------------------------------
(* Reads of a store whose writes can fail                                  *)

NextGet ==
    \/ \E key \in Keys, value \in Values : Set(key, value)
    \/ \E key \in Keys : Get(key)
    \/ \E key \in Keys, value \in Values : SetFault(key, value)

\* set and get calls on one store, where a set may meet a failing I/O step
SpecGet == Init /\ [][NextGet]_vars

----------------------------------------------------------------------------
(* One store, opened on an empty directory, that is called for ever        *)

NextRun ==
    \/ \E key \in Keys, value \in Values : Set(key, value)
    \/ \E key \in Keys : Remove(key)

\* set and remove calls on the store Init opens, with no drop and no reopen;
\* the caller never stops calling set (every set succeeds on a filesystem
\* that does not fail)
SpecRun ==
    Init /\ [][NextRun]_vars /\ WF_vars(\E key \in Keys, value \in Values : Set(key, value))

----------------------------------------------------------------------------
(* Properties                                                              *)

\* the entries a sequential decoder finds in bytes from pos on, each with
\* its start offset, up to the end of input or the first decoder error
RECURSIVE records_from(_, _)
records_from(bytes, pos) ==
    LET op == stream_next(bytes, pos)
    IN  IF op.kind # "entry" THEN <<>>
        ELSE <<[key |-> op.key, value |-> op.value, pos |-> pos]>>
                 \o records_from(bytes, op.end)

Records(bytes) == records_from(bytes, 0)

\* the number of Remove records in bytes
Tombstones(bytes) ==
    Cardinality({i \in DOMAIN Records(bytes) : Records(bytes)[i].value = None})

\* whether the policy check of a set / remove call made now would compact
CompactionDue ==
    compaction_analysis(num_entries, max_entries, Cardinality(DOMAIN kvmap)).run

\* C1: after any sequence of set / remove calls (with the compactions they
\* run) on a store opened on an empty directory, get(k) returns for every key
\* what the reference map holds: Some(last value set), or None.
C1_GetEqualsReferenceMap == up => View = ViewOfRef(ref)

\* a compaction ran in the last set, one key was overwritten, one was removed
C1_Witness ==
    /\ up /\ last.op = "set" /\ last.res = "ok" /\ last.compacted
    /\ ref = [k \in Keys |-> IF k = "a" THEN "y" ELSE None]
    /\ Tombstones(log) = 0
    /\ View["a"] = [res |-> "ok", value |-> "y"]

\* C2: dropping the store and opening the directory again gives a store
\* whose get returns, for every key, what it returned before the drop.
C2_ReopenIdempotent ==
    [][(last.op = "drop" /\ last'.op = "open") => (up' /\ View' = last.view)]_vars

\* a store reopened after a drop, on a log holding a tombstone and a live key
C2_Witness ==
    /\ up /\ last.op = "open" /\ last.prev = "drop" /\ last.res = "ok"
    /\ Tombstones(log) > 0
    /\ \E k \in Keys : View[k].value # None
    /\ \E k \in Keys : ref[k] = None

\* C3: while a store is open (after open, after every set or remove), the
\* index is the replay of the log from byte 0 to its end: every key of the
\* index maps to the start of a Set record of that key, no record of that key
\* starts after it, and a key outside the index has no record or has a Remove
\* as its last record.
C3_IndexIsReplayOfLog ==
    up =>
        /\ build_map(log).ok
        /\ kvmap = build_map(log).map
        /\ \A k \in DOMAIN kvmap :
              /\ stream_next(log, kvmap[k]).kind = "entry"
              /\ stream_next(log, kvmap[k]).key = k
              /\ stream_next(log, kvmap[k]).value # None
              /\ \A i \in DOMAIN Records(log) :
                    Records(log)[i].key = k => Records(log)[i].pos <= kvmap[k]
        /\ \A k \in Keys \ DOMAIN kvmap :
              \A i \in DOMAIN Records(log) :
                 (/\ Records(log)[i].key = k
                  /\ \A j \in DOMAIN Records(log) : Records(log)[j].key = k => j <= i)
                 => Records(log)[i].value = None

\* after a successful remove: the log holds an overwritten Set, a tombstone
\* as the last record of its key, and a live key
C3_Witness ==
    /\ up /\ last.op = "remove" /\ last.res = "ok"
    /\ Len(Records(log)) >= 3
    /\ kvmap # EmptyMap
    /\ \E k \in DOMAIN kvmap : kvmap[k] > 0

\* C4: remove(k) for a key that is not in the index returns the key-not-found
\* error, adds no Remove record to the log (the log is unchanged unless the
\* call compacted it), and leaves the keys of the index and the result of
\* get for every key unchanged.
C4_RemoveMissingKey ==
    [][(up /\ last'.op = "remove" /\ last'.key \notin DOMAIN kvmap
           /\ last' # last /\ faults' = faults)
       => /\ last'.res = "KeyNotFound"
          /\ up'
          /\ Tombstones(log') <= Tombstones(log)
          /\ (~last'.compacted => log' = log)
          /\ DOMAIN kvmap' = DOMAIN kvmap
          /\ View' = View]_vars

\* a remove of a missing key that ran a compaction first, with a key live
C4_Witness ==
    /\ up /\ last.op = "remove" /\ last.res = "KeyNotFound" /\ last.compacted
    /\ last.key \notin DOMAIN kvmap
    /\ kvmap # EmptyMap

\* C5: after a compaction that completes, the active log holds exactly one
\* Set record for each key of the index and nothing else, whatever the
\* directory held when the compaction started.
C5_CompactedLogIsExact ==
    \A order \in IterOrders(kvmap) :
        (up /\ do_compaction(Store, order, NoFault).res = "true")
        => /\ build_map(do_compaction(Store, order, NoFault).log).ok
           /\ build_map(do_compaction(Store, order, NoFault).log).map
                  = do_compaction(Store, order, NoFault).kvmap
           /\ Len(Records(do_compaction(Store, order, NoFault).log))
                  = Cardinality(DOMAIN do_compaction(Store, order, NoFault).kvmap)
           /\ Len(do_compaction(Store, order, NoFault).log)
                  = RecordLen * Cardinality(DOMAIN do_compaction(Store, order, NoFault).kvmap)

\* C6: a compaction keeps the keys of the index, and get returns for every
\* key right after the compaction what it returned right before it.
C6_CompactionPreservesGet ==
    \A order \in IterOrders(kvmap) :
        (up /\ CompactionDue)
        => /\ do_compaction(Store, order, NoFault).res = "true"
           /\ DOMAIN do_compaction(Store, order, NoFault).kvmap = DOMAIN kvmap
           /\ ViewOf(do_compaction(Store, order, NoFault).log,
                     do_compaction(Store, order, NoFault).kvmap) = View

\* a compaction has just run inside a remove that then changed nothing: the
\* log is the compacted one, with the one live key
C6_Witness ==
    /\ up /\ last.op = "remove" /\ last.compacted /\ last.res = "KeyNotFound"
    /\ Cardinality(DOMAIN kvmap) = 1
    /\ Len(log) = RecordLen
    /\ \E k \in Keys : View[k].value = "y"

\* C7: when the process ends inside set, remove or a compaction and the
\* directory is opened again, open succeeds and get returns for every key
\* either what it returned before the cut call or what it returns after the
\* completed call; and the store keeps behaving as that map in all later
\* calls and reopens.
C7_KillLeavesPreOrPostState ==
    /\ (faults > 0 /\ last.op = "open") => last.res = "ok"
    /\ up => View = ViewOfRef(ref)

\* C8: when a step of a compaction fails before the rename (or the rename
\* fails), the call returns the error, kvls.ser is unchanged and the
\* directory holds what it held before the call.
C8_FailedCompactionLeavesDirectory ==
    [][(up /\ CompactionDue /\ faults' = faults + 1
           /\ last'.op \in {"set", "remove"} /\ last'.res = "err" /\ ~last'.compacted)
       => /\ log' = log
          /\ tempExists' = tempExists
          /\ temp' = temp]_vars

\* C9: when set returns an error, every entry of the index still points to
\* the start of a Set record of its key in kvls.ser, and get returns for
\* every key that was live what it returned before the call.
C9_FailedSetKeepsIndexValid ==
    [][(up /\ faults' = faults + 1 /\ last'.op = "set" /\ last'.res = "err")
       => /\ \A k \in DOMAIN kvmap' :
                /\ stream_next(log', kvmap'[k]).kind = "entry"
                /\ stream_next(log', kvmap'[k]).key = k
                /\ stream_next(log', kvmap'[k]).value # None
          /\ \A k \in DOMAIN kvmap : ViewOf(log', kvmap')[k] = View[k]]_vars

\* C10: kvls.compact.ser is absent whenever no call is running: after open
\* and after every set or remove has returned, with success or with an error.
C10_NoTempFileBetweenCalls == ~tempExists

\* C11: in every run in which set / remove calls on one store go on for ever
\* (keys from the finite set Keys), a compaction runs again and again, and
\* the number of records in the active log stays within a bound that depends
\* only on the number of keys and the initial threshold.
C11_CompactionInfinitelyOften ==
    /\ []<>(last.op \in {"set", "remove"} /\ last.compacted)
    /\ [](Len(Records(log)) <= 2 * Cardinality(Keys) + InitialMaxEntries)

\* a compaction ran after the threshold had been doubled
C11_Witness ==
    /\ up /\ last.op = "set" /\ last.res = "ok" /\ last.compacted
    /\ max_entries > InitialMaxEntries
    /\ Cardinality(DOMAIN kvmap) = Cardinality(Keys)

\* C12: get changes nothing: whether it returns Some, None or an error, the
\* index, the bytes of kvls.ser, num_entries and max_entries are after the
\* call what they were before it, the store is still open, and no compaction
\* ran (kvls.compact.ser is untouched as well).
C12_GetIsReadOnly ==
    [][(up /\ last'.op = "get" /\ last'.res \in {"ok", "err"})
       => /\ up'
          /\ kvmap' = kvmap
          /\ log' = log
          /\ num_entries' = num_entries
          /\ max_entries' = max_entries
          /\ ~last'.compacted
          /\ temp' = temp
          /\ tempExists' = tempExists]_vars

\* a get that returned an error (the index entry of its key does not point
\* at a Set record of that key), in a state where a compaction is due
C12_Witness ==
    /\ up /\ last.op = "get" /\ last.res = "err"
    /\ last.key \in DOMAIN kvmap
    /\ CompactionDue

\* the greater of two numbers
Max(a, b) == IF a >= b THEN a ELSE b

\* C13 as stated: at the policy check of every set / remove call, with N
\* the record counter and T the threshold, the call compacts if and only if
\* N >= T, whatever the number of live keys.
C13_CompactsAtThreshold ==
    [][(up /\ last'.op \in {"set", "remove"})
       => (last'.compacted <=> num_entries >= max_entries)]_vars

\* C13 amended: the call compacts if and only if N >= T and N >= 2 * L,
\* with L the number of keys of the index; with N < T, or with N < 2 * L, it
\* does not compact, and with T <= N < 2 * L the check leaves a threshold
\* T >= N behind.
C13_CompactionPolicy ==
    [][(up /\ last'.op \in {"set", "remove"})
       => /\ last'.compacted <=>
                (/\ num_entries >= max_entries
                 /\ num_entries >= 2 * Cardinality(DOMAIN kvmap))
          /\ (num_entries < max_entries => max_entries' = max_entries)
          /\ (/\ num_entries >= max_entries
              /\ num_entries < 2 * Cardinality(DOMAIN kvmap))
             => (max_entries' >= num_entries /\ max_entries' >= max_entries)]_vars

\* a set returned without a compaction after a check with T <= N < 2 * L:
\* the threshold was doubled instead
C13_Witness ==
    /\ up /\ last.op = "set" /\ last.res = "ok" /\ ~last.compacted
    /\ max_entries > InitialMaxEntries
    /\ num_entries > InitialMaxEntries

\* C14 as stated: after every compaction max_entries is the greater of its
\* value before the compaction and twice the number of records of the
\* compacted log.
C14_ThresholdRaisedByCompaction ==
    [][(up /\ last'.op \in {"set", "remove"} /\ last'.compacted)
       => max_entries' = Max(max_entries, 2 * Cardinality(DOMAIN kvmap))]_vars

\* C14 amended: a compaction leaves max_entries as it was.
C14_CompactionKeepsThreshold ==
    [][(up /\ last'.op \in {"set", "remove"} /\ last'.compacted)
       => max_entries' = max_entries]_vars

\* a set of a live key has compacted a log of a reopened store while the
\* threshold was below twice the number of live keys
C14_Witness ==
    /\ up /\ last.op = "set" /\ last.res = "ok" /\ last.compacted
    /\ num_entries = Cardinality(DOMAIN kvmap) + 1
    /\ max_entries < 2 * Cardinality(DOMAIN kvmap)

\* C15: after open and after every set or remove that returned Ok, with or
\* without a compaction, num_entries is the number of records in kvls.ser
\* (and the records are all of the file); right after a compaction it is
\* also the number of keys of the index.
C15_CounterCountsRecords ==
    /\ (up /\ last.op \in {"open", "set", "remove"} /\ last.res = "ok")
       => /\ num_entries = Len(Records(log))
          /\ build_map(log).ok
    /\ \A order \in IterOrders(kvmap) :
          (up /\ CompactionDue)
          => /\ do_compaction(Store, order, NoFault).num_entries
                    = Len(Records(do_compaction(Store, order, NoFault).log))
             /\ do_compaction(Store, order, NoFault).num_entries
                    = Cardinality(DOMAIN do_compaction(Store, order, NoFault).kvmap)

\* a store reopened on a log of three or more records, a tombstone among
\* them, in which the next call compacts
C15_Witness ==
    /\ up /\ last.op = "open" /\ last.prev = "drop" /\ last.res = "ok"
    /\ num_entries >= 3
    /\ Tombstones(log) > 0
    /\ CompactionDue

\* the record (key, value) starts at offset pos of bytes, which held before
\* bytes when it was written, and a replay of bytes gives the key that offset
WrittenAt(bytes, before, pos, key, value) ==
    /\ pos = Len(before)
    /\ stream_next(bytes, pos).kind = "entry"
    /\ stream_next(bytes, pos).key = key
    /\ stream_next(bytes, pos).value = value
    /\ \E i \in DOMAIN Records(bytes) :
          Records(bytes)[i] = [key |-> key, value |-> value, pos |-> pos]

\* r is the store after set(key, value), c the store after its do_compaction
SetOffsetOk(r, c, key, value) ==
    /\ r.res = "ok"
    /\ WrittenAt(r.log, c.log, r.pos, key, value)
    /\ stream_next(r.log, r.pos).end = Len(r.log)
    /\ build_map(r.log).ok
    /\ build_map(r.log).map[key] = r.pos

\* c is the store after a compaction that visited the keys in this order
TempOffsetsOk(c, order) ==
    /\ c.res = "true"
    /\ build_map(c.log).ok
    /\ build_map(c.log).map = c.kvmap
    /\ \A i \in DOMAIN order :
          WrittenAt(c.log, SubSeq(c.log, 1, (i - 1) * RecordLen),
                    c.kvmap[order[i]], order[i], View[order[i]].value)

\* C16: every record write returns the length the file had before the
\* write: the append of set on kvls.ser, and every write of a compaction to
\* the temp file.  Decoding at that offset gives the record just written,
\* and build_map gives the record the same offset when it replays the file.
C16_AppendOffset ==
    \A order \in IterOrders(kvmap) :
        /\ \A key \in Keys, value \in Values :
              up => SetOffsetOk(KvStore_set(Store, key, value, order, NoFault),
                                do_compaction(Store, order, NoFault), key, value)
        /\ (up /\ CompactionDue)
               => TempOffsetsOk(do_compaction(Store, order, NoFault), order)

\* a set that compacted two keys into the temp file (offsets 0 and one
\* record) and then appended its own record behind them
C16_Witness ==
    /\ up /\ last.op = "set" /\ last.res = "ok" /\ last.compacted
    /\ Cardinality(DOMAIN kvmap) = 2
    /\ kvmap[last.key] = 2 * RecordLen
    /\ \E k \in DOMAIN kvmap : kvmap[k] = 0

\* a Set record of key starts at offset pos of bytes
SetRecordAt(bytes, pos, key) ==
    \E i \in DOMAIN Records(bytes) :
        /\ Records(bytes)[i].pos = pos
        /\ Records(bytes)[i].key = key
        /\ Records(bytes)[i].value # None

\* C17: get_at_offset(key, offset) returns the value exactly when a Set
\* record of key starts at offset; in every other case (a Remove record,
\* another key, an offset inside a record, an offset at or past the end of
\* the file) it returns an error, and the store stays usable.
C17_ReadAtValueOrError ==
    [][\A key \in Keys : \A pos \in 0..(Len(log) + 1) :
          ReadAt(key, pos)
          => /\ up'
             /\ last'.res \in {"ok", "err"}
             /\ last'.res = "ok" <=> SetRecordAt(log, pos, key)
             /\ last'.res = "ok" => last'.value = stream_next(log, pos).value]_vars

\* C18: set appends its record and assigns the index entry first and runs
\* the policy check after that, so a compaction run by a set call takes the
\* call's own record in: when such a set returns, kvls.ser holds exactly one
\* Set record for every key of the index and nothing else.
C18_SetCompactsAfterAppend ==
    (up /\ last.op = "set" /\ last.res = "ok" /\ last.compacted)
    => /\ Len(Records(log)) = Cardinality(DOMAIN kvmap)
       /\ Len(log) = RecordLen * Cardinality(DOMAIN kvmap)
       /\ num_entries = Cardinality(DOMAIN kvmap)

\* kvls.ser is a compacted log: one Set record for every key of the index
\* and nothing else
Compacted ==
    /\ up
    /\ build_map(log).ok
    /\ build_map(log).map = kvmap
    /\ Len(Records(log)) = Cardinality(DOMAIN kvmap)
    /\ Len(log) = RecordLen * Cardinality(DOMAIN kvmap)

\* the store c has the record count, the keys and the get results of the
\* current one
SameRecordsAndIndex(c) ==
    /\ Len(Records(c.log)) = Len(Records(log))
    /\ DOMAIN c.kvmap = DOMAIN kvmap
    /\ ViewOf(c.log, c.kvmap) = View

\* C19: running the compaction on a compacted log (through do_compaction
\* with its policy check, or the procedure on its own) leaves the number of
\* records of kvls.ser, the keys of the index and the result of get for
\* every key as they were.
C19_CompactionIdempotent ==
    \A order \in IterOrders(kvmap) :
        Compacted
        => /\ do_compaction(Store, order, NoFault).res \in {"false", "true"}
           /\ SameRecordsAndIndex(do_compaction(Store, order, NoFault))
           /\ compaction_run(Store, order, NoFault).res = "true"
           /\ SameRecordsAndIndex(compaction_run(Store, order, NoFault))
           /\ Len(compaction_run(Store, order, NoFault).log) = Len(log)

\* a log of two keys that a compaction (and the append of a new key behind
\* it) has written
C19_Witness ==
    /\ Compacted
    /\ last.op = "set" /\ last.res = "ok" /\ last.compacted
    /\ Cardinality(DOMAIN kvmap) = 2

\* C20: on a store opened on an empty directory and then only called with
\* set and remove, num_entries never exceeds max_entries by more than one,
\* max_entries never decreases, and max_entries is always its initial value
\* times a power of two.
C20_LogGrowthBound ==
    /\ [](up => /\ num_entries <= max_entries + 1
                /\ \E j \in 0..max_entries :
                      max_entries = InitialMaxEntries * (2 ^ j))
    /\ [][max_entries' >= max_entries]_vars

\* the counter is one above the threshold after a set that did not compact
C20_Witness ==
    /\ up /\ last.op = "set" /\ last.res = "ok" /\ ~last.compacted
    /\ num_entries = max_entries + 1

====
